---- MODULE Spec2Model ----
(***************************************************************************)
(* libreconomy: the reputation subsystem (TransactionLog,                  *)
(* ReputationUpdateSystem, ReputationDecaySystem, ReputationKnowledge,     *)
(* ReputationView), the decision engine (UtilityMaximizer) and the agent   *)
(* components Needs, Wallet, Inventory and AgentIdAllocator.               *)
(*                                                                         *)
(* Numbers.  The program computes in f32.  The model computes the same     *)
(* expressions, in the same order, over exact rationals <<n, d>> (d > 0,   *)
(* lowest terms), so equality of two values is equality of the pairs.      *)
(* Integers.  u32 quantities are modelled at width QtyBits and the u64 of  *)
(* the id allocator at width IdBits, so that saturation and overflow are   *)
(* reached.                                                                *)
(* f32 rounding and overflow to infinity are not represented.  A division  *)
(* by 0.0 gives the IEEE special values, written as pairs with d = 0:      *)
(* <<0, 0>> for NaN, <<1, 0>> and <<-1, 0>> for the infinities.            *)
(* exp() is exact on the model's grid: decay rates are counted in units of *)
(* ln 2 / 5000 per tick and ticks are multiples of 5000, so               *)
(* exp(-rate * ticks) = 1 / 2^(rate * ticks / 5000).                       *)
(***************************************************************************)
EXTENDS Integers, Sequences, FiniteSets, TLC

(***************************************************************************)
(* Bounds of the model                                                     *)
(***************************************************************************)
MaxAgents == 2
MaxEvents == 2
MaxKnown == 2
MaxUpdates == 3
MaxTicks == 2
WorldAgents == 3
MaxCalls == 3
\* widths the model gives to the program's u32 and u64
QtyBits == 4
IdBits == 8

(***************************************************************************)
(* Exact rational arithmetic                                               *)
(***************************************************************************)
Abs(x) == IF x < 0 THEN -x ELSE x

RECURSIVE GCD(_, _)
GCD(a, b) == IF b = 0 THEN a ELSE GCD(b, a % b)

Rat(n, d) ==
    LET s == IF d < 0 THEN -1 ELSE 1
        g == GCD(Abs(n), Abs(d))
    IN  <<(s * n) \div g, (s * d) \div g>>

Int2Rat(n) == <<n, 1>>
Zero == <<0, 1>>
One == <<1, 1>>
Half == <<1, 2>>

RAdd(x, y) ==
    LET g == GCD(x[2], y[2])
    IN  Rat(x[1] * (y[2] \div g) + y[1] * (x[2] \div g), (x[2] \div g) * y[2])
RNeg(x) == <<-x[1], x[2]>>
RSub(x, y) == RAdd(x, RNeg(y))
RMul(x, y) ==
    LET g1 == GCD(Abs(x[1]), y[2])
        g2 == GCD(Abs(y[1]), x[2])
    IN  IF x[1] = 0 \/ y[1] = 0 THEN <<0, 1>>
        ELSE <<(x[1] \div g1) * (y[1] \div g2), (x[2] \div g2) * (y[2] \div g1)>>
RInv(x) == IF x[1] < 0 THEN <<-x[2], -x[1]>> ELSE <<x[2], x[1]>>
RDiv(x, y) == RMul(x, RInv(y))
\* the f32 operator / : x / 0.0 is NaN for x = 0.0 and an infinity otherwise
NaN == <<0, 0>>
F32Div(x, y) ==
    IF y = Zero
    THEN IF x = Zero THEN NaN ELSE IF x[1] > 0 THEN <<1, 0>> ELSE <<-1, 0>>
    ELSE RDiv(x, y)
IsFinite(x) == x[2] # 0

RLt(x, y) ==
    LET g == GCD(x[2], y[2])
    IN  x[1] * (y[2] \div g) < y[1] * (x[2] \div g)
RLe(x, y) == ~RLt(y, x)
RGt(x, y) == RLt(y, x)
RMax(x, y) == IF RLt(x, y) THEN y ELSE x
RAbs(x) == <<Abs(x[1]), x[2]>>

RECURSIVE Pow2(_)
Pow2(k) == IF k = 0 THEN 1 ELSE 2 * Pow2(k - 1)

(***************************************************************************)
(* Program constants                                                       *)
(***************************************************************************)
MAX_NEEDS == 100
MIN_NEEDS == 0
RebalanceTicks == 10000
RebalanceTotal == 1000
NormalTotal == 10

(***************************************************************************)
(* Input domains                                                           *)
(***************************************************************************)
AgentIds == 1..MaxAgents
WorldIds == 1..WorldAgents
WorldTrustLevels == {Half, One}
Ticks == {0, 10000, 15000}
EventTicks == {0, 5000}
DecayRates == {0, 1}

\* events::Outcome
Positive(w) == [kind |-> "Positive", w |-> w]
Negative(w) == [kind |-> "Negative", w |-> w]
Neutral == [kind |-> "Neutral", w |-> Zero]
Outcomes == {Positive(One), Negative(One), Neutral, Positive(Int2Rat(998))}
WorldOutcomes == {Positive(One), Negative(One), Neutral}
\* <<current_tick, decay_rate>> of the decay passes over the populated world
WorldDecays == {<<15000, 1>>, <<10000, 0>>}

\* Outcome::weight
OutcomeWeight(o) ==
    CASE o.kind = "Positive" -> o.w
      [] o.kind = "Negative" -> RNeg(o.w)
      [] o.kind = "Neutral" -> Zero

VARIABLES
    next,                 \* AgentIdAllocator.next
    agents,               \* ReadStorage<Agent>: entity -> AgentId
    reputation_storage,   \* WriteStorage<ReputationKnowledge>: entity -> component
    transaction_log,      \* TransactionLog.events
    added,                \* number of TransactionLog::add calls so far
    applied,              \* per event number, how many update passes iterated over it
    last,                 \* the last operation and the state it started from
    needs,                \* the deciding agent's Needs component
    species,              \* the deciding agent's SpeciesComponent (kind "None": absent)
    world_query,          \* the host's WorldQuery: resource type -> distances, closest first
    maximizer,            \* the UtilityMaximizer: thresholds, weights, resource_search_radius
    utilities,            \* decide's candidate vector as it is when decide returns
    output,               \* the DecisionOutput decide returned
    logged,               \* whether decide printed its diagnostic line
    store,                \* one ReputationKnowledge used through its methods
    call,                 \* the last method called on a component, its arguments and its result
    agent_needs,          \* a Needs component as the library's operations leave it
    need_ticks,           \* number of NeedDecaySystem::tick calls on agent_needs so far
    rep_view,             \* one ReputationView as its constructors and methods leave it
    wallet,               \* one Wallet component
    inventory,            \* one Inventory component: item_id -> quantity
    allocator,            \* one AgentIdAllocator used through allocate
    calls                 \* number of calls counted against MaxCalls so far

repVars == <<next, agents, reputation_storage, transaction_log, added, applied, last>>
decVars == <<needs, species, world_query, maximizer, utilities, output, logged>>
apiVars == <<store, call>>
needsVars == <<agent_needs, need_ticks>>
compVars == <<rep_view, wallet, inventory, allocator, calls>>
vars == <<next, agents, reputation_storage, transaction_log, added, applied, last,
          needs, species, world_query, maximizer, utilities, output, logged, store, call,
          agent_needs, need_ticks, rep_view, wallet, inventory, allocator,
          calls>>

(***************************************************************************)
(* ReputationView                                                          *)
(***************************************************************************)
\* ReputationView::new
NewView == [alpha |-> One, beta |-> One, last_interaction_tick |-> 0, interaction_count |-> 0]

\* ReputationView::score
Score(view) == F32Div(view.alpha, RAdd(view.alpha, view.beta))

\* u64::saturating_sub
SaturatingSub(a, b) == IF a > b THEN a - b ELSE 0

\* f32::exp of -decay_rate * ticks, decay_rate in units of ln 2 / 5000
ExpNeg(decay_rate, ticks) == Rat(1, Pow2((decay_rate * ticks) \div 5000))

\* ReputationView::with_prior
WithPrior(alpha, beta) ==
    [alpha |-> alpha, beta |-> beta, last_interaction_tick |-> 0, interaction_count |-> 0]

\* ReputationView::score_with_decay
ScoreWithDecay(view, current_tick, decay_rate) ==
    LET ticks_since_interaction == SaturatingSub(current_tick, view.last_interaction_tick)
        decay_factor == ExpNeg(decay_rate, ticks_since_interaction)
        current_score == Score(view)
    IN  RAdd(Half, RMul(RSub(current_score, Half), decay_factor))

\* ReputationView::update adding the signed weight to beta
ViewUpdateSigned(view, outcome_weight, current_tick) ==
    [alpha |-> IF RGt(outcome_weight, Zero) THEN RAdd(view.alpha, outcome_weight) ELSE view.alpha,
     beta |-> IF RGt(outcome_weight, Zero) THEN view.beta
              ELSE RAdd(view.beta, outcome_weight),
     last_interaction_tick |-> current_tick,
     interaction_count |-> view.interaction_count + 1]

\* ReputationView::update with the two branches exchanged
ViewUpdateSwapped(view, outcome_weight, current_tick) ==
    [alpha |-> IF RLt(outcome_weight, Zero) THEN RAdd(view.alpha, RAbs(outcome_weight))
               ELSE view.alpha,
     beta |-> IF RGt(outcome_weight, Zero) THEN RAdd(view.beta, outcome_weight) ELSE view.beta,
     last_interaction_tick |-> current_tick,
     interaction_count |-> view.interaction_count + 1]

\* ReputationView::update counting only the interactions that change the evidence
ViewUpdateCountsEvidence(view, outcome_weight, current_tick) ==
    [alpha |-> IF RGt(outcome_weight, Zero) THEN RAdd(view.alpha, outcome_weight) ELSE view.alpha,
     beta |-> IF RGt(outcome_weight, Zero) THEN view.beta
              ELSE IF RLt(outcome_weight, Zero) THEN RAdd(view.beta, RAbs(outcome_weight))
              ELSE view.beta,
     last_interaction_tick |-> current_tick,
     interaction_count |-> IF outcome_weight = Zero THEN view.interaction_count
                           ELSE view.interaction_count + 1]

\* ReputationView::update never moving last_interaction_tick backwards
ViewUpdateKeepsLatestTick(view, outcome_weight, current_tick) ==
    [alpha |-> IF RGt(outcome_weight, Zero) THEN RAdd(view.alpha, outcome_weight) ELSE view.alpha,
     beta |-> IF RGt(outcome_weight, Zero) THEN view.beta
              ELSE IF RLt(outcome_weight, Zero) THEN RAdd(view.beta, RAbs(outcome_weight))
              ELSE view.beta,
     last_interaction_tick |->
         IF current_tick > view.last_interaction_tick THEN current_tick
         ELSE view.last_interaction_tick,
     interaction_count |-> view.interaction_count + 1]

\* ReputationView::update
ViewUpdate(view, outcome_weight, current_tick) ==
    [alpha |-> IF RGt(outcome_weight, Zero) THEN RAdd(view.alpha, outcome_weight) ELSE view.alpha,
     beta |-> IF RGt(outcome_weight, Zero) THEN view.beta
              ELSE IF RLt(outcome_weight, Zero) THEN RAdd(view.beta, RAbs(outcome_weight))
              ELSE view.beta,
     last_interaction_tick |-> current_tick,
     interaction_count |-> view.interaction_count + 1]

\* ReputationView::confidence
Confidence(view) == RAdd(view.alpha, view.beta)

(***************************************************************************)
(* ReputationKnowledge                                                     *)
(***************************************************************************)
\* ReputationKnowledge::new
NewKnowledge == [first_hand |-> <<>>, trust_level |-> Half]

\* ReputationKnowledge::update_reputation stamping every view of the store
\* with the tick of the interaction
UpdateReputationStampsAll(rep, agent, outcome_weight, current_tick) ==
    LET entry == IF agent \in DOMAIN rep.first_hand THEN rep.first_hand[agent] ELSE NewView
        updated == ViewUpdate(entry, outcome_weight, current_tick)
    IN  [rep EXCEPT !.first_hand =
            [a \in (DOMAIN rep.first_hand) \cup {agent} |->
                IF a = agent THEN updated
                ELSE [rep.first_hand[a] EXCEPT !.last_interaction_tick = current_tick]]]

\* ReputationKnowledge::update_reputation
UpdateReputation(rep, agent, outcome_weight, current_tick) ==
    LET entry == IF agent \in DOMAIN rep.first_hand THEN rep.first_hand[agent] ELSE NewView
        updated == ViewUpdate(entry, outcome_weight, current_tick)
    IN  [rep EXCEPT !.first_hand =
            [a \in (DOMAIN rep.first_hand) \cup {agent} |->
                IF a = agent THEN updated ELSE rep.first_hand[a]]]

\* f32::clamp(0.0, 1.0)
Clamp01(x) == IF RLt(x, Zero) THEN Zero ELSE IF RGt(x, One) THEN One ELSE x

\* ReputationKnowledge::with_trust_level
WithTrustLevel(trust_level) == [first_hand |-> <<>>, trust_level |-> Clamp01(trust_level)]

\* get_score answering the neutral score, not the store's trust_level, for an unknown agent
GetScoreNeutral(rep, agent) ==
    IF agent \in DOMAIN rep.first_hand THEN Score(rep.first_hand[agent]) ELSE Half

\* ReputationKnowledge::get_score
GetScore(rep, agent) ==
    IF agent \in DOMAIN rep.first_hand THEN Score(rep.first_hand[agent]) ELSE rep.trust_level

\* ReputationKnowledge::get_score_with_decay
GetScoreWithDecay(rep, agent, current_tick, decay_rate) ==
    IF agent \in DOMAIN rep.first_hand
    THEN ScoreWithDecay(rep.first_hand[agent], current_tick, decay_rate)
    ELSE rep.trust_level

\* ReputationKnowledge::is_trusted
IsTrusted(rep, agent, threshold) == ~RLt(GetScore(rep, agent), threshold)

\* HashMap::iter: the orders in which the entries of first_hand may be visited
IterOrders(first_hand) ==
    LET known == DOMAIN first_hand
        n == Cardinality(known)
    IN  {order \in [1..n -> known] : \A i, j \in 1..n : i # j => order[i] # order[j]}

\* slice::sort_by with |a, b| b.1.partial_cmp(&a.1): stable, highest score first
RECURSIVE InsertByScore(_, _)
InsertByScore(sorted, c) ==
    IF sorted = <<>> THEN <<c>>
    ELSE IF RGt(c[2], Head(sorted)[2]) THEN <<c>> \o sorted
    ELSE <<Head(sorted)>> \o InsertByScore(Tail(sorted), c)

RECURSIVE SortByScore(_, _)
SortByScore(sorted, rest) ==
    IF rest = <<>> THEN sorted
    ELSE SortByScore(InsertByScore(sorted, Head(rest)), Tail(rest))

\* Vec::truncate
Truncate(v, len) == IF len < Len(v) THEN SubSeq(v, 1, len) ELSE v

\* ReputationKnowledge::get_most_trusted, first_hand iterated in the order `order`
GetMostTrusted(rep, max_count, order) ==
    LET scores == [i \in 1..Len(order) |-> <<order[i], Score(rep.first_hand[order[i]])>>]
    IN  Truncate(SortByScore(<<>>, scores), max_count)

(***************************************************************************)
(* ReputationUpdateSystem::run                                             *)
(***************************************************************************)
\* the (&entities, &agents).join() loop: the entity found for each participant,
\* 0 for None
RECURSIVE FindEntities(_, _, _, _, _)
FindEntities(ags, event, e, agent1_entity, agent2_entity) ==
    IF e > Len(ags) THEN <<agent1_entity, agent2_entity>>
    ELSE LET e1 == IF ags[e] = event.agent1 THEN e ELSE agent1_entity
             e2 == IF ags[e] = event.agent2 THEN e ELSE agent2_entity
         IN  IF e1 # 0 /\ e2 # 0 THEN <<e1, e2>>
             ELSE FindEntities(ags, event, e + 1, e1, e2)

\* the loop body without the symmetric update
ProcessEventOneSided(storage, ags, event) ==
    LET weight == OutcomeWeight(event.outcome)
        found == FindEntities(ags, event, 1, 0, 0)
        entity1 == found[1]
    IN  IF entity1 # 0 /\ entity1 \in DOMAIN storage
        THEN [storage EXCEPT ![entity1] =
                  UpdateReputation(storage[entity1], event.agent2, weight, event.tick)]
        ELSE storage

\* the loop body skipping the whole event unless both participants are resolved
ProcessEventBothOrNone(storage, ags, event) ==
    LET weight == OutcomeWeight(event.outcome)
        found == FindEntities(ags, event, 1, 0, 0)
        entity1 == found[1]
        entity2 == found[2]
    IN  IF entity1 # 0 /\ entity1 \in DOMAIN storage /\ entity2 # 0 /\ entity2 \in DOMAIN storage
        THEN LET s1 == [storage EXCEPT ![entity1] =
                            UpdateReputation(storage[entity1], event.agent2, weight, event.tick)]
             IN  [s1 EXCEPT ![entity2] =
                      UpdateReputation(s1[entity2], event.agent1, weight, event.tick)]
        ELSE storage

\* the loop body giving agent2's side the opposite effect
ProcessEventAsymmetric(storage, ags, event) ==
    LET weight == OutcomeWeight(event.outcome)
        found == FindEntities(ags, event, 1, 0, 0)
        entity1 == found[1]
        entity2 == found[2]
        s1 == IF entity1 # 0 /\ entity1 \in DOMAIN storage
              THEN [storage EXCEPT ![entity1] =
                        UpdateReputation(storage[entity1], event.agent2, weight, event.tick)]
              ELSE storage
        s2 == IF entity2 # 0 /\ entity2 \in DOMAIN s1
              THEN [s1 EXCEPT ![entity2] =
                        UpdateReputation(s1[entity2], event.agent1, RNeg(weight), event.tick)]
              ELSE s1
    IN  s2

\* the body of the `for event in events` loop
ProcessEvent(storage, ags, event) ==
    LET weight == OutcomeWeight(event.outcome)
        found == FindEntities(ags, event, 1, 0, 0)
        entity1 == found[1]
        entity2 == found[2]
        s1 == IF entity1 # 0 /\ entity1 \in DOMAIN storage
              THEN [storage EXCEPT ![entity1] =
                        UpdateReputation(storage[entity1], event.agent2, weight, event.tick)]
              ELSE storage
        s2 == IF entity2 # 0 /\ entity2 \in DOMAIN s1
              THEN [s1 EXCEPT ![entity2] =
                        UpdateReputation(s1[entity2], event.agent1, weight, event.tick)]
              ELSE s1
    IN  s2

RECURSIVE ProcessEvents(_, _, _)
ProcessEvents(storage, ags, events) ==
    IF events = <<>> THEN storage
    ELSE ProcessEvents(ProcessEvent(storage, ags, Head(events)), ags, Tail(events))

\* drain that copies the events and leaves them in the log
DrainKeep(log) == <<log, log>>

\* drain that drops the newest event
DrainLosesLast(log) == <<SubSeq(log, 1, Len(log) - 1), <<>>>>

\* TransactionLog::drain: <<the events taken, the log left behind>>
Drain(log) == <<log, <<>>>>

RECURSIVE CountSeq(_, _)
CountSeq(events, n) ==
    IF events = <<>> THEN 0
    ELSE (IF Head(events).seq = n THEN 1 ELSE 0) + CountSeq(Tail(events), n)

(***************************************************************************)
(* ReputationDecaySystem::run                                              *)
(***************************************************************************)
\* the rebalance condition with inclusive comparisons
NeedsRebalanceInclusive(view, current_tick) ==
    \/ SaturatingSub(current_tick, view.last_interaction_tick) >= RebalanceTicks
    \/ ~RLt(RAdd(view.alpha, view.beta), Int2Rat(RebalanceTotal))

\* the rebalance condition
NeedsRebalance(view, current_tick) ==
    \/ SaturatingSub(current_tick, view.last_interaction_tick) > RebalanceTicks
    \/ RGt(RAdd(view.alpha, view.beta), Int2Rat(RebalanceTotal))

\* the rebalance without the normalisation to NormalTotal
DecayViewUnscaled(view, current_tick, decay_rate) ==
    LET current_score == ScoreWithDecay(view, current_tick, decay_rate)
    IN  IF NeedsRebalance(view, current_tick)
        THEN LET total == RAdd(view.alpha, view.beta)
             IN  [view EXCEPT !.alpha = RMul(current_score, total),
                              !.beta = RMul(RSub(One, current_score), total),
                              !.last_interaction_tick = current_tick]
        ELSE view

\* the rebalance without the reset of last_interaction_tick
DecayViewKeepsTick(view, current_tick, decay_rate) ==
    LET current_score == ScoreWithDecay(view, current_tick, decay_rate)
    IN  IF NeedsRebalance(view, current_tick)
        THEN LET total == RAdd(view.alpha, view.beta)
                 scale == RDiv(Int2Rat(NormalTotal), RMax(total, Int2Rat(NormalTotal)))
             IN  [view EXCEPT !.alpha = RMul(RMul(current_score, total), scale),
                              !.beta = RMul(RMul(RSub(One, current_score), total), scale)]
        ELSE view

\* the body of the loop over first_hand.values_mut()
DecayView(view, current_tick, decay_rate) ==
    LET current_score == ScoreWithDecay(view, current_tick, decay_rate)
    IN  IF NeedsRebalance(view, current_tick)
        THEN LET total == RAdd(view.alpha, view.beta)
                 new_alpha == RMul(current_score, total)
                 new_beta == RMul(RSub(One, current_score), total)
                 scale == RDiv(Int2Rat(NormalTotal), RMax(total, Int2Rat(NormalTotal)))
             IN  [view EXCEPT !.alpha = RMul(new_alpha, scale),
                              !.beta = RMul(new_beta, scale),
                              !.last_interaction_tick = current_tick]
        ELSE view

\* the loop dropping the views it finds stale instead of rebalancing them
DecayAllEvictsStale(storage, current_tick, decay_rate) ==
    [e \in DOMAIN storage |->
        [storage[e] EXCEPT !.first_hand =
            [a \in {x \in DOMAIN storage[e].first_hand :
                       SaturatingSub(current_tick, storage[e].first_hand[x].last_interaction_tick)
                           <= RebalanceTicks} |->
                DecayView(storage[e].first_hand[a], current_tick, decay_rate)]]]

\* the loop over (&mut reputation_storage).join()
DecayAll(storage, current_tick, decay_rate) ==
    [e \in DOMAIN storage |->
        [storage[e] EXCEPT !.first_hand =
            [a \in DOMAIN storage[e].first_hand |->
                DecayView(storage[e].first_hand[a], current_tick, decay_rate)]]]

(***************************************************************************)
(* Operations                                                              *)
(***************************************************************************)
\* `last` tells whether the operation just performed was a system pass ("update",
\* "decay") or one of the host ("host"); for a pass it keeps the storage and the
\* log the pass started from and the resources it read
NoPass == [op |-> "host", rep |-> <<>>, log |-> <<>>, tick |-> 0, rate |-> 0]
Pass(op, tick, rate) ==
    [op |-> op, rep |-> reputation_storage, log |-> transaction_log,
     tick |-> tick, rate |-> rate]

RepInit ==
    /\ next = 1
    /\ agents = <<>>
    /\ reputation_storage = <<>>
    /\ transaction_log = <<>>
    /\ added = 0
    /\ applied = [n \in 1..MaxEvents |-> 0]
    /\ last = NoPass

\* a world in use: two agents with a ReputationKnowledge each, one positive
\* interaction between them applied by an update pass, a second one queued
RepAfterTrade ==
    /\ next = 3
    /\ agents = <<1, 2>>
    /\ reputation_storage =
          [e \in {1, 2} |-> UpdateReputation(NewKnowledge, 3 - e, One, 0)]
    /\ transaction_log =
          <<[agent1 |-> 1, agent2 |-> 2, outcome |-> Positive(One), tick |-> 5000, seq |-> 2]>>
    /\ added = 2
    /\ applied = [n \in 1..MaxEvents |-> IF n = 1 THEN 1 ELSE 0]
    /\ last = NoPass

\* a populated world: WorldAgents agents, each given a ReputationKnowledge
\* by the host before any event is processed, all built by
\* ReputationKnowledge::with_trust_level(t) with the same t
WorldInit ==
    /\ next = WorldAgents + 1
    /\ agents = [e \in 1..WorldAgents |-> e]
    /\ reputation_storage \in
          {[e \in 1..WorldAgents |-> WithTrustLevel(t)] : t \in WorldTrustLevels}
    /\ transaction_log = <<>>
    /\ added = 0
    /\ applied = [n \in 1..MaxEvents |-> 0]
    /\ last = NoPass

\* create_agent_custom: allocate an AgentId and build the entity
CreateAgent ==
    /\ next <= MaxAgents
    /\ agents' = Append(agents, next)
    /\ next' = next + 1
    /\ last' = NoPass
    /\ UNCHANGED <<reputation_storage, transaction_log, added, applied>>
    /\ UNCHANGED decVars
    /\ UNCHANGED compVars
    /\ UNCHANGED apiVars
    /\ UNCHANGED needsVars

\* the host attaches ReputationKnowledge::new() to an entity
InsertReputation(e) ==
    /\ e \in 1..Len(agents)
    /\ e \notin DOMAIN reputation_storage
    /\ reputation_storage' =
          [x \in (DOMAIN reputation_storage) \cup {e} |->
              IF x = e THEN NewKnowledge ELSE reputation_storage[x]]
    /\ last' = NoPass
    /\ UNCHANGED <<next, agents, transaction_log, added, applied>>
    /\ UNCHANGED decVars
    /\ UNCHANGED compVars
    /\ UNCHANGED apiVars
    /\ UNCHANGED needsVars

\* TransactionLog::add
LogAdd(agent1, agent2, outcome, tick) ==
    /\ added < MaxEvents
    /\ transaction_log' = Append(transaction_log,
          [agent1 |-> agent1, agent2 |-> agent2, outcome |-> outcome,
           tick |-> tick, seq |-> added + 1])
    /\ added' = added + 1
    /\ last' = NoPass
    /\ UNCHANGED <<next, agents, reputation_storage, applied>>
    /\ UNCHANGED decVars
    /\ UNCHANGED compVars
    /\ UNCHANGED apiVars
    /\ UNCHANGED needsVars

\* ReputationUpdateSystem::run
UpdatePass ==
    LET drained == Drain(transaction_log)
        events == drained[1]
    IN  /\ transaction_log' = drained[2]
        /\ reputation_storage' = ProcessEvents(reputation_storage, agents, events)
        /\ applied' = [n \in 1..MaxEvents |-> applied[n] + CountSeq(events, n)]
        /\ last' = Pass("update", 0, 0)
        /\ UNCHANGED <<next, agents, added>>
        /\ UNCHANGED decVars
        /\ UNCHANGED compVars
        /\ UNCHANGED apiVars
        /\ UNCHANGED needsVars

\* ReputationDecaySystem::run with CurrentTick(current_tick) and
\* ReputationDecayConfig { decay_rate }
DecayPass(current_tick, decay_rate) ==
    /\ reputation_storage' = DecayAll(reputation_storage, current_tick, decay_rate)
    /\ last' = Pass("decay", current_tick, decay_rate)
    /\ UNCHANGED <<next, agents, transaction_log, added, applied>>
    /\ UNCHANGED decVars
    /\ UNCHANGED compVars
    /\ UNCHANGED apiVars
    /\ UNCHANGED needsVars

(***************************************************************************)
(* UtilityMaximizer                                                        *)
(***************************************************************************)
\* DecisionThresholds::default
DefaultThresholds ==
    [critical_thirst |-> 80, high_thirst |-> 60,
     critical_hunger |-> 70, high_hunger |-> 50,
     critical_tiredness |-> 85, high_tiredness |-> 70]

\* weights that do not favour survival
EqualWeights == [survival |-> One, comfort |-> One, efficiency |-> Half]

\* UtilityWeights::default
DefaultWeights == [survival |-> Int2Rat(2), comfort |-> One, efficiency |-> Half]

\* UtilityMaximizer::default
DefaultRadius == 1000
DefaultMaximizer ==
    [thresholds |-> DefaultThresholds, weights |-> DefaultWeights,
     resource_search_radius |-> DefaultRadius]

WanderUtility == Rat(1, 10)

\* decision::Intent and DecisionOutput
SeekItem(item_type, urgency) == [type |-> "SeekItem", item_type |-> item_type, urgency |-> urgency]
Rest == [type |-> "Rest"]
Wander == [type |-> "Wander"]
\* the output wrapped in the Action variant
ActionOutput(intent) == [variant |-> "Action", intent |-> intent]
IntentOutput(intent) == [variant |-> "Intent", intent |-> intent]
NoOutput == [variant |-> "None"]

\* WorldQuery::get_nearby_resources
GetNearbyResources(wq, resource_type) ==
    IF resource_type \in DOMAIN wq THEN wq[resource_type] ELSE <<>>

\* the utility of one resource type: with a closest source, urgency * survival +
\* distance_factor * efficiency; without, urgency * survival
SourceUtility(self, urgency, sources) ==
    IF sources # <<>>
    THEN LET closest == Head(sources)
             distance_factor ==
                 RMax(RSub(One, Rat(closest, self.resource_search_radius)), Zero)
         IN  RAdd(RMul(urgency, self.weights.survival),
                  RMul(distance_factor, self.weights.efficiency))
    ELSE RMul(urgency, self.weights.survival)

\* evaluate_seek_water letting a thirst above critical_thirst override
\* every other need
EvaluateSeekWaterCritical(self, thirst, wq) ==
    LET urgency == Rat(thirst, 100)
        water_sources == GetNearbyResources(wq, "water")
    IN  <<IF thirst > self.thresholds.critical_thirst
          THEN Int2Rat(10)
          ELSE SourceUtility(self, urgency, water_sources), "Thirst">>

\* UtilityMaximizer::evaluate_seek_water: <<utility, reason>>
EvaluateSeekWater(self, thirst, wq) ==
    LET urgency == Rat(thirst, 100)
        water_sources == GetNearbyResources(wq, "water")
    IN  <<SourceUtility(self, urgency, water_sources), "Thirst">>

\* the food_items vector of evaluate_seek_food
FoodItems(sp) ==
    CASE sp.kind = "Herbivore" -> IF sp.plants = <<>> THEN <<"grass", "food">> ELSE sp.plants
      [] sp.kind = "Carnivore" -> <<"rabbit_meat">>
      [] sp.kind = "Omnivore" -> IF sp.plants = <<>> THEN <<"grass", "food">> ELSE sp.plants
      [] sp.kind = "None" -> <<"grass", "food">>

\* the loop keeping a later type of equal utility
RECURSIVE BestOptionLaterWins(_, _, _, _, _, _)
BestOptionLaterWins(self, urgency, wq, food_items, i, best_option) ==
    IF i > Len(food_items) THEN best_option
    ELSE LET food_type == food_items[i]
             food_sources == GetNearbyResources(wq, food_type)
             utility == SourceUtility(self, urgency, food_sources)
             kept == IF food_sources # <<>>
                        /\ (best_option = <<>> \/ ~RLt(utility, best_option[1]))
                     THEN <<utility, "Hunger", food_type>>
                     ELSE best_option
         IN  BestOptionLaterWins(self, urgency, wq, food_items, i + 1, kept)

\* the `for food_type in &food_items` loop: best_option after the types from i on,
\* <<>> for None, <<utility, reason, food_type>> for Some
RECURSIVE BestOption(_, _, _, _, _, _)
BestOption(self, urgency, wq, food_items, i, best_option) ==
    IF i > Len(food_items) THEN best_option
    ELSE LET food_type == food_items[i]
             food_sources == GetNearbyResources(wq, food_type)
             utility == SourceUtility(self, urgency, food_sources)
             kept == IF food_sources # <<>>
                        /\ (best_option = <<>> \/ RGt(utility, best_option[1]))
                     THEN <<utility, "Hunger", food_type>>
                     ELSE best_option
         IN  BestOption(self, urgency, wq, food_items, i + 1, kept)

\* UtilityMaximizer::evaluate_seek_food: <<utility, reason, item_type>>
EvaluateSeekFood(self, hunger, sp, wq) ==
    LET urgency == Rat(hunger, 100)
        food_items == FoodItems(sp)
        best_option == BestOption(self, urgency, wq, food_items, 1, <<>>)
    IN  IF best_option # <<>> THEN best_option
        ELSE <<RMul(urgency, self.weights.survival), "Hunger",
               IF food_items # <<>> THEN Head(food_items) ELSE "food">>

\* the candidate vector built with inclusive threshold comparisons
CandidatesInclusive(self, n, sp, wq) ==
    LET water == EvaluateSeekWater(self, n.thirst, wq)
        food == EvaluateSeekFood(self, n.hunger, sp, wq)
    IN  (IF n.thirst >= self.thresholds.high_thirst
         THEN <<[intent |-> SeekItem("water", Rat(n.thirst, 100)),
                 utility |-> water[1], reason |-> water[2]]>>
         ELSE <<>>)
        \o (IF n.hunger >= self.thresholds.high_hunger
            THEN <<[intent |-> SeekItem(food[3], Rat(n.hunger, 100)),
                    utility |-> food[1], reason |-> food[2]]>>
            ELSE <<>>)
        \o (IF n.tiredness >= self.thresholds.high_tiredness
            THEN <<[intent |-> Rest,
                    utility |-> RMul(Rat(n.tiredness, 100), self.weights.comfort),
                    reason |-> "Tiredness"]>>
            ELSE <<>>)
        \o <<[intent |-> Wander, utility |-> WanderUtility, reason |-> "Exploring"]>>

\* the candidate vector of decide before it is sorted
Candidates(self, n, sp, wq) ==
    LET water == EvaluateSeekWater(self, n.thirst, wq)
        food == EvaluateSeekFood(self, n.hunger, sp, wq)
    IN  (IF n.thirst > self.thresholds.high_thirst
         THEN <<[intent |-> SeekItem("water", Rat(n.thirst, 100)),
                 utility |-> water[1], reason |-> water[2]]>>
         ELSE <<>>)
        \o (IF n.hunger > self.thresholds.high_hunger
            THEN <<[intent |-> SeekItem(food[3], Rat(n.hunger, 100)),
                    utility |-> food[1], reason |-> food[2]]>>
            ELSE <<>>)
        \o (IF n.tiredness > self.thresholds.high_tiredness
            THEN <<[intent |-> Rest,
                    utility |-> RMul(Rat(n.tiredness, 100), self.weights.comfort),
                    reason |-> "Tiredness"]>>
            ELSE <<>>)
        \o <<[intent |-> Wander, utility |-> WanderUtility, reason |-> "Exploring"]>>

\* an unstable sort: a candidate moves before the candidates of equal utility
RECURSIVE InsertByUtilityUnstable(_, _)
InsertByUtilityUnstable(sorted, c) ==
    IF sorted = <<>> THEN <<c>>
    ELSE IF ~RLt(c.utility, Head(sorted).utility) THEN <<c>> \o sorted
    ELSE <<Head(sorted)>> \o InsertByUtilityUnstable(Tail(sorted), c)

\* slice::sort_by with |a, b| b.1.partial_cmp(&a.1): stable, highest utility first
RECURSIVE InsertByUtility(_, _)
InsertByUtility(sorted, c) ==
    IF sorted = <<>> THEN <<c>>
    ELSE IF RGt(c.utility, Head(sorted).utility) THEN <<c>> \o sorted
    ELSE <<Head(sorted)>> \o InsertByUtility(Tail(sorted), c)

RECURSIVE SortByUtility(_, _)
SortByUtility(sorted, rest) ==
    IF rest = <<>> THEN sorted
    ELSE SortByUtility(InsertByUtility(sorted, Head(rest)), Tail(rest))

\* rand::random::<f32>() < 0.01, the condition of the diagnostic println
LogSamples == BOOLEAN

\* decide writing the satisfied need back to the agent's Needs
DecideSatisfiesNeed ==
    /\ output = NoOutput
    /\ utilities' = SortByUtility(<<>>, Candidates(maximizer, needs, species, world_query))
    /\ \E sample \in LogSamples : logged' = sample
    /\ output' = IntentOutput(utilities'[1].intent)
    /\ needs' = IF utilities'[1].reason = "Thirst" THEN [needs EXCEPT !.thirst = 0]
                ELSE IF utilities'[1].reason = "Hunger" THEN [needs EXCEPT !.hunger = 0]
                ELSE IF utilities'[1].reason = "Tiredness" THEN [needs EXCEPT !.tiredness = 0]
                ELSE needs
    /\ UNCHANGED <<species, world_query, maximizer>>
    /\ UNCHANGED repVars
    /\ UNCHANGED compVars
    /\ UNCHANGED apiVars
    /\ UNCHANGED needsVars

\* UtilityMaximizer::decide
Decide ==
    /\ output = NoOutput
    /\ utilities' = SortByUtility(<<>>, Candidates(maximizer, needs, species, world_query))
    /\ \E sample \in LogSamples : logged' = sample
    /\ output' = IntentOutput(utilities'[1].intent)
    /\ UNCHANGED <<needs, species, world_query, maximizer>>
    /\ UNCHANGED repVars
    /\ UNCHANGED compVars
    /\ UNCHANGED apiVars
    /\ UNCHANGED needsVars

(***************************************************************************)
(* Inputs of the decision engine                                           *)
(***************************************************************************)
Diets ==
    {[kind |-> "None", plants |-> <<>>],
     [kind |-> "Herbivore", plants |-> <<>>],
     [kind |-> "Herbivore", plants |-> <<"grass">>],
     [kind |-> "Herbivore", plants |-> <<"berries", "grass">>],
     [kind |-> "Carnivore", plants |-> <<>>],
     [kind |-> "Omnivore", plants |-> <<>>],
     [kind |-> "Omnivore", plants |-> <<"food", "grass">>]}
ThresholdChoices ==
    {DefaultThresholds,
     [critical_thirst |-> 61, high_thirst |-> 60,
      critical_hunger |-> 51, high_hunger |-> 50,
      critical_tiredness |-> 71, high_tiredness |-> 70],
     [critical_thirst |-> 90, high_thirst |-> 80,
      critical_hunger |-> 90, high_hunger |-> 80,
      critical_tiredness |-> 90, high_tiredness |-> 80]}
WeightChoices ==
    {DefaultWeights,
     [survival |-> One, comfort |-> One, efficiency |-> Half],
     [survival |-> Rat(1, 10), comfort |-> Rat(1, 10), efficiency |-> Half]}
WorldQueries ==
    {[water |-> w, grass |-> g, food |-> f, rabbit_meat |-> m, berries |-> b] :
        w \in {<<>>, <<100>>},
        g \in {<<>>, <<500>>, <<100, 500>>},
        f \in {<<>>, <<100>>, <<1500>>},
        m \in {<<>>, <<100>>},
        b \in {<<>>, <<500>>}}

DecIdle ==
    /\ needs = [thirst |-> 50, hunger |-> 50, tiredness |-> 50]
    /\ species = [kind |-> "None", plants |-> <<>>]
    /\ world_query = [water |-> <<>>, grass |-> <<>>, food |-> <<>>,
                       rabbit_meat |-> <<>>, berries |-> <<>>]
    /\ maximizer = DefaultMaximizer
    /\ utilities = <<>>
    /\ output = NoOutput
    /\ logged = FALSE

DecInit ==
    /\ needs \in [thirst : {60, 80, 100}, hunger : {50, 80, 100}, tiredness : {70, 80, 100}]
    /\ species \in Diets
    /\ world_query \in WorldQueries
    /\ maximizer \in [thresholds : ThresholdChoices, weights : WeightChoices,
                       resource_search_radius : {DefaultRadius}]
    /\ utilities = <<>>
    /\ output = NoOutput
    /\ logged = FALSE

(***************************************************************************)
(* A ReputationKnowledge used through its methods                          *)
(***************************************************************************)
KnownIds == 1..MaxKnown
ApiWeights == {Rat(5, 2), RNeg(One), Zero}
TrustLevels == {Rat(3, 2)}
Thresholds == {Half, Rat(2, 3)}
\* <<current_tick, decay_rate>> of the get_score_with_decay calls
DecayQueries == {<<15000, 0>>, <<15000, 1>>}

NoCall == [op |-> "none"]

ApiIdle ==
    /\ store = NewKnowledge
    /\ call = NoCall

\* ReputationKnowledge::new() or ReputationKnowledge::with_trust_level(t)
ApiInit ==
    /\ store \in {NewKnowledge} \cup {WithTrustLevel(t) : t \in TrustLevels}
    /\ call = NoCall

\* the number of updates the store has taken
RECURSIVE Interactions(_, _)
Interactions(first_hand, known) ==
    IF known = {} THEN 0
    ELSE LET a == CHOOSE x \in known : TRUE
         IN  first_hand[a].interaction_count + Interactions(first_hand, known \ {a})

\* store.update_reputation(agent, outcome_weight, current_tick)
ApiUpdateReputation(agent, outcome_weight, current_tick) ==
    /\ Interactions(store.first_hand, DOMAIN store.first_hand) < MaxUpdates
    /\ store' = UpdateReputation(store, agent, outcome_weight, current_tick)
    /\ call' = [op |-> "update_reputation", pre |-> store, agent |-> agent,
                weight |-> outcome_weight, tick |-> current_tick]
    /\ UNCHANGED repVars
    /\ UNCHANGED decVars
    /\ UNCHANGED compVars
    /\ UNCHANGED needsVars

\* store.get_score(agent)
ApiGetScore(agent) ==
    /\ call' = [op |-> "get_score", pre |-> store, agent |-> agent,
                result |-> GetScore(store, agent)]
    /\ UNCHANGED store
    /\ UNCHANGED repVars
    /\ UNCHANGED decVars
    /\ UNCHANGED compVars
    /\ UNCHANGED needsVars

\* store.get_score_with_decay(agent, current_tick, decay_rate)
ApiGetScoreWithDecay(agent, current_tick, decay_rate) ==
    /\ call' = [op |-> "get_score_with_decay", pre |-> store, agent |-> agent,
                tick |-> current_tick, rate |-> decay_rate,
                result |-> GetScoreWithDecay(store, agent, current_tick, decay_rate)]
    /\ UNCHANGED store
    /\ UNCHANGED repVars
    /\ UNCHANGED decVars
    /\ UNCHANGED compVars
    /\ UNCHANGED needsVars

\* store.is_trusted(agent, threshold)
ApiIsTrusted(agent, threshold) ==
    /\ call' = [op |-> "is_trusted", pre |-> store, agent |-> agent,
                threshold |-> threshold, result |-> IsTrusted(store, agent, threshold)]
    /\ UNCHANGED store
    /\ UNCHANGED repVars
    /\ UNCHANGED decVars
    /\ UNCHANGED compVars
    /\ UNCHANGED needsVars

\* store.get_most_trusted(max_count); the HashMap is iterated in any order
ApiGetMostTrusted(max_count) ==
    /\ \E order \in IterOrders(store.first_hand) :
          call' = [op |-> "get_most_trusted", pre |-> store, max_count |-> max_count,
                   result |-> GetMostTrusted(store, max_count, order)]
    /\ UNCHANGED store
    /\ UNCHANGED repVars
    /\ UNCHANGED decVars
    /\ UNCHANGED compVars
    /\ UNCHANGED needsVars

(***************************************************************************)
(* Needs                                                                   *)
(***************************************************************************)
\* v.max(MIN_NEEDS).min(MAX_NEEDS)
ClampNeed(v) ==
    LET raised == IF RLt(v, Int2Rat(MIN_NEEDS)) THEN Int2Rat(MIN_NEEDS) ELSE v
    IN  IF RGt(raised, Int2Rat(MAX_NEEDS)) THEN Int2Rat(MAX_NEEDS) ELSE raised

\* Needs::new
NeedsNew(thirst, hunger, tiredness) ==
    [thirst |-> ClampNeed(thirst), hunger |-> ClampNeed(hunger),
     tiredness |-> ClampNeed(tiredness)]

\* the values a host passes for a need
NeedInputs == {Int2Rat(-5), Zero, Int2Rat(50), Int2Rat(100), Int2Rat(150)}

NeedsIdle ==
    /\ agent_needs = NeedsNew(Int2Rat(50), Int2Rat(50), Int2Rat(50))
    /\ need_ticks = 0

NeedsInit ==
    /\ \E t \in NeedInputs, h \in NeedInputs, r \in NeedInputs :
          agent_needs = NeedsNew(t, h, r)
    /\ need_ticks = 0

\* Needs::clamp
NeedsClamp ==
    /\ agent_needs' = [thirst |-> ClampNeed(agent_needs.thirst),
                       hunger |-> ClampNeed(agent_needs.hunger),
                       tiredness |-> ClampNeed(agent_needs.tiredness)]
    /\ UNCHANGED need_ticks
    /\ UNCHANGED repVars
    /\ UNCHANGED decVars
    /\ UNCHANGED compVars
    /\ UNCHANGED apiVars

\* ffi set_needs on an entity that has a Needs component
SetNeeds(thirst, hunger, tiredness) ==
    /\ agent_needs' = NeedsNew(thirst, hunger, tiredness)
    /\ UNCHANGED need_ticks
    /\ UNCHANGED repVars
    /\ UNCHANGED decVars
    /\ UNCHANGED compVars
    /\ UNCHANGED apiVars

\* NeedDecaySystem::tick
NeedDecayTick ==
    /\ need_ticks < MaxTicks
    /\ need_ticks' = need_ticks + 1
    /\ agent_needs' = [agent_needs EXCEPT !.thirst = RAdd(@, Rat(1, 100)),
                                          !.hunger = RAdd(@, Rat(1, 100))]
    /\ UNCHANGED repVars
    /\ UNCHANGED decVars
    /\ UNCHANGED compVars
    /\ UNCHANGED apiVars

(***************************************************************************)
(* Wallet                                                                  *)
(***************************************************************************)
RMin(x, y) == IF RLt(y, x) THEN y ELSE x

\* Wallet::new
WalletNew(currency) == [currency |-> RMax(currency, Zero)]

\* Wallet::deposit
Deposit(self, amount) ==
    IF RLe(amount, Zero) THEN self
    ELSE [currency |-> RAdd(self.currency, amount)]

\* Wallet::withdraw handing out the amount asked for, whatever the balance
WithdrawOverdraws(self, amount) ==
    IF RLe(amount, Zero) THEN <<self, Zero>>
    ELSE <<[currency |-> RSub(self.currency, amount)], amount>>

\* Wallet::withdraw: <<the wallet afterwards, the value returned>>
Withdraw(self, amount) ==
    IF RLe(amount, Zero) THEN <<self, Zero>>
    ELSE LET withdrawn == RMin(self.currency, amount)
         IN  <<[currency |-> RSub(self.currency, withdrawn)], withdrawn>>

(***************************************************************************)
(* Inventory                                                               *)
(***************************************************************************)
U32Max == Pow2(QtyBits) - 1
Items == {"water", "food"}

\* Inventory::default
InventoryDefault == <<>>

\* Inventory::quantity
Quantity(self, item_id) == IF item_id \in DOMAIN self THEN self[item_id] ELSE 0

\* Inventory::set_quantity
SetQuantity(self, item_id, quantity) ==
    IF quantity = 0
    THEN [x \in (DOMAIN self) \ {item_id} |-> self[x]]
    ELSE [x \in (DOMAIN self) \cup {item_id} |-> IF x = item_id THEN quantity ELSE self[x]]

\* u32 addition wrapping around at the width
WrappingAdd(a, b) == (a + b) % Pow2(QtyBits)

\* u32::saturating_add
SaturatingAdd(a, b) == IF a + b > U32Max THEN U32Max ELSE a + b

\* Inventory::add
InventoryAdd(self, item_id, delta) ==
    IF delta = 0 THEN self
    ELSE LET current == Quantity(self, item_id)
             new_qty == SaturatingAdd(current, delta)
         IN  SetQuantity(self, item_id, new_qty)

\* Inventory::remove: <<the inventory afterwards, the value returned>>
InventoryRemove(self, item_id, delta) ==
    IF delta = 0 THEN <<self, 0>>
    ELSE LET current == Quantity(self, item_id)
             removed == IF current < delta THEN current ELSE delta
         IN  <<SetQuantity(self, item_id, SaturatingSub(current, removed)), removed>>

(***************************************************************************)
(* AgentIdAllocator                                                        *)
(***************************************************************************)
U64Max == Pow2(IdBits) - 1
Overflow == [err |-> "Overflow"]
Ok(id) == [ok |-> id]

\* AgentIdAllocator::new
AllocatorNew == [next |-> 1]

\* u64 addition of 1 wrapping around at the width
WrappingAdd1(n) == Ok((n + 1) % Pow2(IdBits))

\* u64::checked_add(1)
CheckedAdd1(n) == IF n = U64Max THEN Overflow ELSE Ok(n + 1)

\* AgentIdAllocator::allocate: <<the allocator afterwards, the Result returned>>
Allocate(self) ==
    LET id == self.next
        sum == CheckedAdd1(self.next)
    IN  IF sum = Overflow THEN <<self, Overflow>>
        ELSE <<[next |-> sum.ok], Ok(id)>>

\* AgentIdAllocator::peek
Peek(self) == self.next

(***************************************************************************)
(* The components used through their methods                               *)
(***************************************************************************)
CompIdle ==
    /\ rep_view = NewView
    /\ wallet = WalletNew(Zero)
    /\ inventory = InventoryDefault
    /\ allocator = AllocatorNew
    /\ calls = 0

WalletInputs == {Int2Rat(-10), Zero, Int2Rat(100)}
Amounts == {Int2Rat(-5), Zero, Int2Rat(30), Int2Rat(80)}

\* a call on the wallet leaves everything else alone
WalletFrame ==
    /\ UNCHANGED <<rep_view, inventory, allocator, store>>
    /\ UNCHANGED repVars
    /\ UNCHANGED decVars
    /\ UNCHANGED needsVars

\* Wallet::new(currency)
WalletInit ==
    /\ rep_view = NewView
    /\ wallet \in {WalletNew(c) : c \in WalletInputs}
    /\ inventory = InventoryDefault
    /\ allocator = AllocatorNew
    /\ calls = 0

\* wallet.deposit(amount)
WalletDeposit(amount) ==
    /\ calls < MaxCalls
    /\ wallet' = Deposit(wallet, amount)
    /\ call' = [op |-> "deposit", pre |-> wallet, amount |-> amount]
    /\ calls' = calls + 1
    /\ WalletFrame

\* wallet.withdraw(amount)
WalletWithdraw(amount) ==
    /\ calls < MaxCalls
    /\ wallet' = Withdraw(wallet, amount)[1]
    /\ call' = [op |-> "withdraw", pre |-> wallet, amount |-> amount,
                result |-> Withdraw(wallet, amount)[2]]
    /\ calls' = calls + 1
    /\ WalletFrame

Deltas == {0, 1, 5, U32Max}

\* a call on the inventory leaves everything else alone
InventoryFrame ==
    /\ UNCHANGED <<rep_view, wallet, allocator, calls, store>>
    /\ UNCHANGED repVars
    /\ UNCHANGED decVars
    /\ UNCHANGED needsVars

\* inventory.add(item_id, delta)
InvAdd(item_id, delta) ==
    /\ inventory' = InventoryAdd(inventory, item_id, delta)
    /\ call' = [op |-> "add", pre |-> inventory, item_id |-> item_id, delta |-> delta]
    /\ InventoryFrame

\* inventory.remove(item_id, delta)
InvRemove(item_id, delta) ==
    /\ inventory' = InventoryRemove(inventory, item_id, delta)[1]
    /\ call' = [op |-> "remove", pre |-> inventory, item_id |-> item_id, delta |-> delta,
                result |-> InventoryRemove(inventory, item_id, delta)[2]]
    /\ InventoryFrame

\* a call on the allocator leaves everything else alone
AllocatorFrame ==
    /\ UNCHANGED <<rep_view, wallet, inventory, store>>
    /\ UNCHANGED repVars
    /\ UNCHANGED decVars
    /\ UNCHANGED needsVars

\* the ids handed out so far, in the order of the calls
IdsSoFar == IF call.op \in {"allocate", "peek"} THEN call.ids ELSE <<>>

\* allocator.allocate(); of the calls that fail only MaxCalls are followed
AllocatorAllocate ==
    LET result == Allocate(allocator)[2]
    IN  /\ calls < MaxCalls
        /\ allocator' = Allocate(allocator)[1]
        /\ call' = [op |-> "allocate", pre |-> allocator, result |-> result,
                    ids |-> IF result = Overflow THEN IdsSoFar
                            ELSE Append(IdsSoFar, result.ok)]
        /\ calls' = IF result = Overflow THEN calls + 1 ELSE calls
        /\ AllocatorFrame

\* allocator.peek()
AllocatorPeek ==
    /\ call' = [op |-> "peek", pre |-> allocator, result |-> Peek(allocator),
                ids |-> IdsSoFar]
    /\ UNCHANGED <<allocator, calls>>
    /\ AllocatorFrame

(***************************************************************************)
(* A ReputationView used through its constructors and methods              *)
(***************************************************************************)
PriorInputs == {Zero, Rat(1, 100), One, Int2Rat(2)}
ViewWeights == {One, RNeg(One)}

\* a call on the view leaves everything else alone
ViewFrame ==
    /\ UNCHANGED <<wallet, inventory, allocator, calls, store>>
    /\ UNCHANGED repVars
    /\ UNCHANGED decVars
    /\ UNCHANGED needsVars

\* ReputationView::new()
ViewNew ==
    /\ rep_view' = NewView
    /\ call' = [op |-> "new"]
    /\ ViewFrame

\* ReputationView::default()
ViewDefault ==
    /\ rep_view' = NewView
    /\ call' = [op |-> "default"]
    /\ ViewFrame

\* ReputationView::with_prior(alpha, beta)
ViewWithPrior(alpha, beta) ==
    /\ rep_view' = WithPrior(alpha, beta)
    /\ call' = [op |-> "with_prior", alpha |-> alpha, beta |-> beta]
    /\ ViewFrame

\* the view update_reputation inserts for an agent met for the first time:
\* entry(agent).or_insert_with(ReputationView::new)
ViewOrInsertWith ==
    /\ rep_view' = NewView
    /\ call' = [op |-> "or_insert_with"]
    /\ ViewFrame

\* view.update(outcome_weight, current_tick)
ViewUpdateCall(outcome_weight, current_tick) ==
    /\ rep_view.interaction_count < MaxUpdates
    /\ rep_view' = ViewUpdate(rep_view, outcome_weight, current_tick)
    /\ call' = [op |-> "update", pre |-> rep_view, weight |-> outcome_weight,
                tick |-> current_tick]
    /\ ViewFrame

\* view.score()
ViewScore ==
    /\ call' = [op |-> "score", pre |-> rep_view, result |-> Score(rep_view)]
    /\ UNCHANGED rep_view
    /\ ViewFrame

(***************************************************************************)
(* Specifications                                                          *)
(***************************************************************************)
Init == RepInit /\ DecIdle /\ ApiIdle /\ NeedsIdle /\ CompIdle
Next ==
    \/ CreateAgent
    \/ \E e \in 1..MaxAgents : InsertReputation(e)
    \/ \E a1 \in AgentIds, a2 \in AgentIds, o \in Outcomes, t \in EventTicks : LogAdd(a1, a2, o, t)
    \/ UpdatePass
    \/ \E t \in Ticks, r \in DecayRates : DecayPass(t, r)
Spec == Init /\ [][Next]_vars

\* the decision engine on every input of its domain
InitDecide == (RepInit \/ RepAfterTrade) /\ DecInit /\ ApiIdle /\ NeedsIdle /\ CompIdle
NextDecide == Decide
SpecDecide == InitDecide /\ [][NextDecide]_vars

\* one ReputationKnowledge and the calls a host makes on it
InitStore == RepInit /\ DecIdle /\ ApiInit /\ NeedsIdle /\ CompIdle
NextStore ==
    \/ \E a \in KnownIds, w \in ApiWeights, t \in EventTicks : ApiUpdateReputation(a, w, t)
    \/ \E a \in KnownIds : ApiGetScore(a)
    \/ \E a \in KnownIds, q \in DecayQueries : ApiGetScoreWithDecay(a, q[1], q[2])
    \/ \E a \in KnownIds, th \in Thresholds : ApiIsTrusted(a, th)
    \/ \E n \in 0..MaxKnown : ApiGetMostTrusted(n)
SpecStore == InitStore /\ [][NextStore]_vars

\* a Needs component and the operations that write it
InitNeeds == RepInit /\ DecIdle /\ ApiIdle /\ NeedsInit /\ CompIdle
NextNeeds ==
    \/ NeedsClamp
    \/ \E t \in NeedInputs, h \in NeedInputs, r \in NeedInputs : SetNeeds(t, h, r)
    \/ NeedDecayTick
SpecNeeds == InitNeeds /\ [][NextNeeds]_vars

\* the reputation systems over a populated world
InitWorld == WorldInit /\ DecIdle /\ ApiIdle /\ NeedsIdle /\ CompIdle
NextWorld ==
    \/ \E a1 \in WorldIds, a2 \in WorldIds, o \in WorldOutcomes, t \in EventTicks :
          LogAdd(a1, a2, o, t)
    \/ UpdatePass
    \/ \E q \in WorldDecays : DecayPass(q[1], q[2])
SpecWorld == InitWorld /\ [][NextWorld]_vars

\* one ReputationView from its construction on
InitView == RepInit /\ DecIdle /\ ApiIdle /\ NeedsIdle /\ CompIdle
NextView ==
    \/ ViewNew
    \/ ViewDefault
    \/ \E alpha \in PriorInputs, beta \in PriorInputs : ViewWithPrior(alpha, beta)
    \/ ViewOrInsertWith
    \/ \E w \in ViewWeights, t \in EventTicks : ViewUpdateCall(w, t)
    \/ ViewScore
SpecView == InitView /\ [][NextView]_vars

\* one Wallet from its construction on
InitWallet == RepInit /\ DecIdle /\ ApiIdle /\ NeedsIdle /\ WalletInit
NextWallet ==
    \/ \E amount \in Amounts : WalletDeposit(amount)
    \/ \E amount \in Amounts : WalletWithdraw(amount)
SpecWallet == InitWallet /\ [][NextWallet]_vars

\* one Inventory from Inventory::default() on
InitInventory == RepInit /\ DecIdle /\ ApiIdle /\ NeedsIdle /\ CompIdle
NextInventory ==
    \/ \E item_id \in Items, delta \in Deltas : InvAdd(item_id, delta)
    \/ \E item_id \in Items, delta \in Deltas : InvRemove(item_id, delta)
SpecInventory == InitInventory /\ [][NextInventory]_vars

\* one AgentIdAllocator from AgentIdAllocator::new() on
InitAllocator == RepInit /\ DecIdle /\ ApiIdle /\ NeedsIdle /\ CompIdle
NextAllocator ==
    \/ AllocatorAllocate
    \/ AllocatorPeek
SpecAllocator == InitAllocator /\ [][NextAllocator]_vars

(***************************************************************************)
(* Vocabulary of the properties                                            *)
(***************************************************************************)
\* the entity that carries AgentId id, 0 when there is none
EntityOf(id) ==
    IF \E e \in 1..Len(agents) : agents[e] = id
    THEN CHOOSE e \in 1..Len(agents) : agents[e] = id
    ELSE 0

\* the agent can be resolved: it has an entity and the entity a ReputationKnowledge
HasStore(storage, id) == EntityOf(id) # 0 /\ EntityOf(id) \in DOMAIN storage

Knows(storage, owner, other) ==
    HasStore(storage, owner) /\ other \in DOMAIN storage[EntityOf(owner)].first_hand

\* owner's view of other; the uniform prior stands for a view not created yet
ViewOf(storage, owner, other) ==
    IF Knows(storage, owner, other)
    THEN storage[EntityOf(owner)].first_hand[other]
    ELSE [alpha |-> One, beta |-> One, last_interaction_tick |-> 0, interaction_count |-> 0]

AllViews(storage) ==
    {<<e, a>> \in (DOMAIN storage) \X AgentIds : a \in DOMAIN storage[e].first_hand}

Total(view) == RAdd(view.alpha, view.beta)

AfterUpdate == last.op = "update"
AfterDecay == last.op = "decay"
OneEvent == AfterUpdate /\ Len(last.log) = 1

\* the amounts an event of weight w adds to alpha and to beta
AlphaGain(w) == IF RGt(w, Zero) THEN w ELSE Zero
BetaGain(w) == IF RLt(w, Zero) THEN RNeg(w) ELSE Zero

(***************************************************************************)
(* C1: after one ReputationUpdateSystem pass the TransactionLog is empty,  *)
(* whatever it held before, also when queued events name agents without   *)
(* an entity or without a ReputationKnowledge.                             *)
(***************************************************************************)
C1_LogEmptyAfterPass == AfterUpdate => transaction_log = <<>>

C1_Witness ==
    /\ AfterUpdate
    /\ transaction_log = <<>>
    /\ \E i \in 1..Len(last.log) :
          /\ ~HasStore(last.rep, last.log[i].agent1)
          /\ ~HasStore(last.rep, last.log[i].agent2)
    /\ \E i \in 1..Len(last.log) : HasStore(last.rep, last.log[i].agent1)

(***************************************************************************)
(* C2: processing one event (a1, a2, outcome, tick) where both a1 and a2   *)
(* own a ReputationKnowledge changes a1's view of a2 and a2's view of a1   *)
(* identically: same alpha delta, same beta delta, same                    *)
(* last_interaction_tick (the event's tick), same interaction_count        *)
(* increment.                                                              *)
(***************************************************************************)
C2_SymmetricUpdate ==
    OneEvent =>
        LET ev == last.log[1]
            pre1 == ViewOf(last.rep, ev.agent1, ev.agent2)
            pre2 == ViewOf(last.rep, ev.agent2, ev.agent1)
            post1 == ViewOf(reputation_storage, ev.agent1, ev.agent2)
            post2 == ViewOf(reputation_storage, ev.agent2, ev.agent1)
        IN  (HasStore(last.rep, ev.agent1) /\ HasStore(last.rep, ev.agent2)) =>
                /\ Knows(reputation_storage, ev.agent1, ev.agent2)
                /\ Knows(reputation_storage, ev.agent2, ev.agent1)
                /\ RSub(post1.alpha, pre1.alpha) = RSub(post2.alpha, pre2.alpha)
                /\ RSub(post1.beta, pre1.beta) = RSub(post2.beta, pre2.beta)
                /\ post1.last_interaction_tick = ev.tick
                /\ post2.last_interaction_tick = ev.tick
                /\ post1.interaction_count - pre1.interaction_count
                     = post2.interaction_count - pre2.interaction_count
                /\ post1.interaction_count > pre1.interaction_count

\* both participants resolved, their views of each other different before the event
C2_Witness ==
    /\ OneEvent
    /\ LET ev == last.log[1]
       IN  /\ ev.agent1 # ev.agent2
           /\ HasStore(last.rep, ev.agent1)
           /\ HasStore(last.rep, ev.agent2)
           /\ OutcomeWeight(ev.outcome) # Zero
           /\ ViewOf(last.rep, ev.agent1, ev.agent2) # ViewOf(last.rep, ev.agent2, ev.agent1)

(***************************************************************************)
(* C3: in any interleaving of TransactionLog::add and update passes every  *)
(* added event is consumed exactly once, by the first pass after its add   *)
(* and by no later pass; a pass that runs with nothing added since the     *)
(* previous pass leaves every ReputationKnowledge unchanged.               *)
(***************************************************************************)
Queued(n) == \E i \in 1..Len(transaction_log) : transaction_log[i].seq = n

C3_ConsumedExactlyOnce ==
    /\ \A n \in 1..MaxEvents :
          IF n <= added
          THEN \/ Queued(n) /\ applied[n] = 0
               \/ ~Queued(n) /\ applied[n] = 1
          ELSE ~Queued(n) /\ applied[n] = 0
    /\ AfterUpdate => \A n \in 1..added : applied[n] = 1
    /\ (AfterUpdate /\ last.log = <<>>) => reputation_storage = last.rep
    /\ (AfterUpdate /\ \E i \in 1..Len(last.log) : HasStore(last.rep, last.log[i].agent1))
          => reputation_storage # last.rep

\* a pass over an empty log after earlier events were applied
C3_Witness ==
    /\ AfterUpdate
    /\ last.log = <<>>
    /\ added = MaxEvents
    /\ \A n \in 1..added : applied[n] = 1
    /\ AllViews(reputation_storage) # {}

(***************************************************************************)
(* C4: when one participant of an event cannot be resolved (no entity, or  *)
(* an entity without ReputationKnowledge) the pass skips only that side:   *)
(* the other participant, if resolvable, still gets its view of the        *)
(* unresolved agent updated with the event's weight and tick, and the log  *)
(* is still drained.                                                       *)
(***************************************************************************)
OneSideUpdated(ev, resolved, unresolved) ==
    LET w == OutcomeWeight(ev.outcome)
        pre == ViewOf(last.rep, resolved, unresolved)
        post == ViewOf(reputation_storage, resolved, unresolved)
        er == EntityOf(resolved)
    IN  /\ Knows(reputation_storage, resolved, unresolved)
        /\ post.alpha = RAdd(pre.alpha, AlphaGain(w))
        /\ post.beta = RAdd(pre.beta, BetaGain(w))
        /\ post.last_interaction_tick = ev.tick
        /\ post.interaction_count = pre.interaction_count + 1
        /\ DOMAIN reputation_storage = DOMAIN last.rep
        /\ \A e \in DOMAIN last.rep : e # er => reputation_storage[e] = last.rep[e]
        /\ DOMAIN reputation_storage[er].first_hand
              = (DOMAIN last.rep[er].first_hand) \cup {unresolved}
        /\ \A a \in DOMAIN last.rep[er].first_hand :
              a # unresolved => reputation_storage[er].first_hand[a] = last.rep[er].first_hand[a]
        /\ transaction_log = <<>>

C4_UnresolvedSideSkipped ==
    OneEvent =>
        LET ev == last.log[1]
        IN  /\ (HasStore(last.rep, ev.agent1) /\ ~HasStore(last.rep, ev.agent2))
                  => OneSideUpdated(ev, ev.agent1, ev.agent2)
            /\ (HasStore(last.rep, ev.agent2) /\ ~HasStore(last.rep, ev.agent1))
                  => OneSideUpdated(ev, ev.agent2, ev.agent1)
            /\ (~HasStore(last.rep, ev.agent1) /\ ~HasStore(last.rep, ev.agent2))
                  => (reputation_storage = last.rep /\ transaction_log = <<>>)

\* agent2 has an entity but no ReputationKnowledge, agent1 is resolved
C4_Witness ==
    /\ OneEvent
    /\ LET ev == last.log[1]
       IN  /\ HasStore(last.rep, ev.agent1)
           /\ EntityOf(ev.agent2) # 0
           /\ ~HasStore(last.rep, ev.agent2)
           /\ OutcomeWeight(ev.outcome) # Zero
           /\ ev.tick # 0

ClaimedRebalance(view, T) ==
    \/ T - view.last_interaction_tick > 10000
    \/ RGt(Total(view), Int2Rat(1000))

C6_RebalancePreservesDecayedScore ==
    AfterDecay =>
        \A p \in AllViews(last.rep) :
            LET pre == last.rep[p[1]].first_hand[p[2]]
                post == reputation_storage[p[1]].first_hand[p[2]]
                decayed == ScoreWithDecay(pre, last.tick, last.rate)
            IN  ClaimedRebalance(pre, last.tick) =>
                    /\ RLe(Total(post), Int2Rat(10))
                    /\ Score(post) = decayed
                    /\ post.last_interaction_tick = last.tick
                    /\ ScoreWithDecay(post, last.tick, last.rate) = decayed

\* a rebalanced view whose score had decayed and whose evidence exceeded 10
C6_Witness ==
    /\ AfterDecay
    /\ \E p \in AllViews(last.rep) :
          LET pre == last.rep[p[1]].first_hand[p[2]]
              post == reputation_storage[p[1]].first_hand[p[2]]
          IN  /\ ClaimedRebalance(pre, last.tick)
              /\ RGt(Total(pre), Int2Rat(10))
              /\ ScoreWithDecay(pre, last.tick, last.rate) # Score(pre)
              /\ Total(post) = Int2Rat(10)

C8_DecayIdempotent ==
    AfterDecay => DecayAll(reputation_storage, last.tick, last.rate) = reputation_storage

\* the first pass rebalanced a view and changed its score
C8_Witness ==
    /\ AfterDecay
    /\ last.rate > 0
    /\ \E p \in AllViews(last.rep) :
          LET pre == last.rep[p[1]].first_hand[p[2]]
              post == reputation_storage[p[1]].first_hand[p[2]]
          IN  Score(post) # Score(pre) /\ RGt(Total(pre), Int2Rat(1000))

(***************************************************************************)
(* C9: decide returns the intent of a candidate whose utility is maximal   *)
(* among the candidates built for the agent; when several candidates share *)
(* the maximal utility it returns the one evaluated first in the order     *)
(* water, food, rest, wander.                                              *)
(***************************************************************************)
Decided == output # NoOutput

\* the candidates in evaluation order
Built == Candidates(maximizer, needs, species, world_query)

IsMaximal(cs, i) == \A j \in 1..Len(cs) : RLe(cs[j].utility, cs[i].utility)

EvaluationRank(reason) ==
    CASE reason = "Thirst" -> 1
      [] reason = "Hunger" -> 2
      [] reason = "Tiredness" -> 3
      [] reason = "Exploring" -> 4

C9_FirstMaximalCandidate ==
    Decided =>
        /\ output.variant = "Intent"
        /\ \E i \in 1..Len(Built) :
              /\ IsMaximal(Built, i)
              /\ \A j \in 1..Len(Built) :
                    (j # i /\ IsMaximal(Built, j))
                        => EvaluationRank(Built[i].reason) < EvaluationRank(Built[j].reason)
              /\ output.intent = Built[i].intent

\* three candidates share the maximal utility
C9_Witness ==
    /\ Decided
    /\ Cardinality({i \in 1..Len(Built) : IsMaximal(Built, i)}) >= 3
    /\ output.intent.type = "SeekItem"
    /\ output.intent.item_type = "water"

(***************************************************************************)
(* C10: the item_type of the food candidate is always a member of the      *)
(* agent's diet candidate list (Herbivore/Omnivore: its plant list, or     *)
(* [grass, food] if that list is empty; Carnivore: [rabbit_meat]; no diet: *)
(* [grass, food]), never a resource type outside it even when only such a  *)
(* resource is nearby: it is the listed type with the highest utility      *)
(* among those for which the query returns a source (the earlier listed    *)
(* type wins ties), and the first listed type, with utility                *)
(* urgency * survival_weight, when no listed type has a source.            *)
(***************************************************************************)
ClaimedDietList ==
    IF species.kind \in {"Herbivore", "Omnivore"}
    THEN (IF species.plants = <<>> THEN <<"grass", "food">> ELSE species.plants)
    ELSE IF species.kind = "Carnivore" THEN <<"rabbit_meat">>
    ELSE <<"grass", "food">>

HasSource(item) == item \in DOMAIN world_query /\ world_query[item] # <<>>

\* urgency * survival + max(0, 1 - distance / radius) * efficiency for the closest source
ClaimedUtility(item) ==
    LET urgency == Rat(needs.hunger, 100)
        d == Rat(world_query[item][1], maximizer.resource_search_radius)
        factor == IF RLt(d, One) THEN RSub(One, d) ELSE Zero
    IN  RAdd(RMul(urgency, maximizer.weights.survival),
             RMul(factor, maximizer.weights.efficiency))

FoodCandidates == {i \in 1..Len(utilities) : utilities[i].reason = "Hunger"}

C10_FoodTypeWithinDiet ==
    (Decided /\ needs.hunger > maximizer.thresholds.high_hunger) =>
        /\ Cardinality(FoodCandidates) = 1
        /\ \A i \in FoodCandidates :
              LET c == utilities[i]
                  list == ClaimedDietList
                  found == {k \in 1..Len(list) : HasSource(list[k])}
              IN  /\ c.intent.type = "SeekItem"
                  /\ \E k \in 1..Len(list) : c.intent.item_type = list[k]
                  /\ IF found = {}
                     THEN /\ c.intent.item_type = list[1]
                          /\ c.utility = RMul(Rat(needs.hunger, 100), maximizer.weights.survival)
                     ELSE \E k \in found :
                            /\ c.intent.item_type = list[k]
                            /\ c.utility = ClaimedUtility(list[k])
                            /\ \A m \in found : RLe(ClaimedUtility(list[m]), c.utility)
                            /\ \A m \in found :
                                  (m < k) => RLt(ClaimedUtility(list[m]), c.utility)

\* a herbivore that eats only grass, hungry, with rabbit meat the only thing nearby
C10_Witness ==
    /\ Decided
    /\ needs.hunger > maximizer.thresholds.high_hunger
    /\ species = [kind |-> "Herbivore", plants |-> <<"grass">>]
    /\ world_query.rabbit_meat # <<>>
    /\ world_query.grass = <<>>
    /\ world_query.food = <<>>
    /\ world_query.berries = <<>>
    /\ \E i \in FoodCandidates : utilities[i].intent.item_type = "grass"

\* two listed types with a source and the same utility: the earlier one is kept
C10_TieWitness ==
    /\ Decided
    /\ needs.hunger > maximizer.thresholds.high_hunger
    /\ species.plants = <<"berries", "grass">>
    /\ HasSource("berries") /\ HasSource("grass")
    /\ ClaimedUtility("berries") = ClaimedUtility("grass")

(***************************************************************************)
(* C11: a candidate is built for a need only when the need strictly        *)
(* exceeds its configured high threshold; if thirst <= high_thirst,        *)
(* hunger <= high_hunger and tiredness <= high_tiredness (equality         *)
(* included), decide returns Intent::Wander whatever the spatial query     *)
(* returns and whatever the weights are.                                   *)
(***************************************************************************)
HasCandidate(reason) == \E i \in 1..Len(utilities) : utilities[i].reason = reason

NoUrgentNeed ==
    /\ needs.thirst <= maximizer.thresholds.high_thirst
    /\ needs.hunger <= maximizer.thresholds.high_hunger
    /\ needs.tiredness <= maximizer.thresholds.high_tiredness

C11_CandidateOnlyAboveThreshold ==
    Decided =>
        /\ HasCandidate("Thirst") => needs.thirst > maximizer.thresholds.high_thirst
        /\ HasCandidate("Hunger") => needs.hunger > maximizer.thresholds.high_hunger
        /\ HasCandidate("Tiredness") => needs.tiredness > maximizer.thresholds.high_tiredness
        /\ NoUrgentNeed => output = [variant |-> "Intent", intent |-> [type |-> "Wander"]]

\* every need exactly at its high threshold, water and food nearby, non-default weights
C11_Witness ==
    /\ Decided
    /\ needs.thirst = maximizer.thresholds.high_thirst
    /\ needs.hunger = maximizer.thresholds.high_hunger
    /\ needs.tiredness = maximizer.thresholds.high_tiredness
    /\ maximizer.thresholds # DefaultThresholds
    /\ maximizer.weights # DefaultWeights
    /\ HasSource("water") /\ HasSource("grass") /\ HasSource("food")
    /\ output.intent.type = "Wander"

(***************************************************************************)
(* C12: for every agent that has Needs, decide returns the                 *)
(* DecisionOutput::Intent variant and the intent is one of SeekItem, Rest  *)
(* or Wander: it never returns an Action or a Transaction, nor a FindWork  *)
(* or SeekTrade intent.                                                    *)
(***************************************************************************)
C12_OnlyIntentVariant ==
    Decided =>
        /\ output.variant = "Intent"
        /\ output.variant \notin {"Action", "Transaction"}
        /\ output.intent.type \in {"SeekItem", "Rest", "Wander"}
        /\ output.intent.type \notin {"FindWork", "SeekTrade"}

\* all four candidates were built and Rest was chosen
C12_Witness ==
    /\ Decided
    /\ Len(utilities) = 4
    /\ output.variant = "Intent"
    /\ output.intent.type = "Rest"

(***************************************************************************)
(* C13: a call to decide changes no shared state: the agent's Needs and    *)
(* SpeciesComponent, every ReputationKnowledge and the TransactionLog are  *)
(* the same after the call as before it.                                   *)
(***************************************************************************)
DecideStep == output = NoOutput /\ output' # NoOutput

C13_DecideReadsOnly ==
    [][DecideStep =>
          /\ needs' = needs
          /\ species' = species
          /\ reputation_storage' = reputation_storage
          /\ transaction_log' = transaction_log]_vars

\* decide has chosen a need to satisfy in a world with views and a queued event
C13_Witness ==
    /\ Decided
    /\ output.intent.type = "SeekItem"
    /\ species.kind # "None"
    /\ AllViews(reputation_storage) # {}
    /\ transaction_log # <<>>

(***************************************************************************)
(* C14: ReputationView::update(weight, tick) adds weight to alpha when     *)
(* weight > 0, adds |weight| to beta when weight < 0 and changes neither   *)
(* when weight = 0; in all three cases it sets last_interaction_tick to    *)
(* tick and increments interaction_count by exactly 1, and it never        *)
(* decreases alpha or beta.                                                *)
(***************************************************************************)
Called(op) == call.op = op

\* the view of `agent` in a store; a view not created yet is the fresh one
StoreView(rep, agent) ==
    IF agent \in DOMAIN rep.first_hand THEN rep.first_hand[agent]
    ELSE [alpha |-> One, beta |-> One, last_interaction_tick |-> 0, interaction_count |-> 0]

C14_UpdateAddsEvidence ==
    Called("update_reputation") =>
        LET pre == StoreView(call.pre, call.agent)
            post == StoreView(store, call.agent)
            w == call.weight
        IN  /\ call.agent \in DOMAIN store.first_hand
            /\ RGt(w, Zero) => (post.alpha = RAdd(pre.alpha, w) /\ post.beta = pre.beta)
            /\ RLt(w, Zero) => (post.alpha = pre.alpha /\ post.beta = RAdd(pre.beta, RAbs(w)))
            /\ w = Zero => (post.alpha = pre.alpha /\ post.beta = pre.beta)
            /\ post.last_interaction_tick = call.tick
            /\ post.interaction_count = pre.interaction_count + 1
            /\ RLe(pre.alpha, post.alpha)
            /\ RLe(pre.beta, post.beta)

\* a zero-weight update at tick 0 of a view last touched at a later tick
C14_Witness ==
    /\ Called("update_reputation")
    /\ call.weight = Zero
    /\ call.tick = 0
    /\ call.agent \in DOMAIN call.pre.first_hand
    /\ call.pre.first_hand[call.agent].last_interaction_tick > 0
    /\ RGt(call.pre.first_hand[call.agent].beta, One)
    /\ store.first_hand[call.agent].interaction_count = MaxUpdates

(***************************************************************************)
(* C15: after an update pass over a batch of events, the interaction_count *)
(* of an agent's view of another agent has grown by exactly the number of  *)
(* events in the batch whose two participants are those two agents (in     *)
(* either role order), for every pair of agents including an event whose   *)
(* agent1 and agent2 are the same agent.                                   *)
(***************************************************************************)
\* the events of the batch whose two participants are a and b, in either role order
EventsBetween(log, a, b) ==
    {i \in 1..Len(log) :
        \/ log[i].agent1 = a /\ log[i].agent2 = b
        \/ log[i].agent1 = b /\ log[i].agent2 = a}

\* how much the interaction_count of a's view of b grew in the pass
CountGrowth(a, b) ==
    ViewOf(reputation_storage, a, b).interaction_count
        - ViewOf(last.rep, a, b).interaction_count

C15_CountGrowsByEvents ==
    AfterUpdate =>
        \A a \in AgentIds, b \in AgentIds :
            HasStore(last.rep, a) =>
                CountGrowth(a, b) = Cardinality(EventsBetween(last.log, a, b))

\* C15 as amended: the count grows by the number of events between two
\* distinct agents, and by two for every event of an agent with itself
C15_CountGrowsByUpdates ==
    AfterUpdate =>
        \A a \in AgentIds, b \in AgentIds :
            HasStore(last.rep, a) =>
                CountGrowth(a, b) =
                    IF a # b THEN Cardinality(EventsBetween(last.log, a, b))
                    ELSE 2 * Cardinality(EventsBetween(last.log, a, a))

\* a batch of a self-event of agent 1 and an event between agents 1 and 2
C15_Witness ==
    /\ AfterUpdate
    /\ Len(last.log) = 2
    /\ HasStore(last.rep, 1) /\ HasStore(last.rep, 2)
    /\ last.log[1].agent1 = 1 /\ last.log[1].agent2 = 1
    /\ last.log[2].agent1 = 2 /\ last.log[2].agent2 = 1
    /\ CountGrowth(1, 1) = 2
    /\ CountGrowth(1, 2) = 1
    /\ CountGrowth(2, 1) = 1

(***************************************************************************)
(* C16: ReputationKnowledge::get_score(agent) returns view.score() when    *)
(* the store holds a view of the agent and the store's trust_level         *)
(* otherwise; the lookup is not an error and does not create a view, so    *)
(* the set of known agents is unchanged by get_score,                      *)
(* get_score_with_decay, is_trusted and get_most_trusted.                  *)
(***************************************************************************)
Lookups == {"get_score", "get_score_with_decay", "is_trusted", "get_most_trusted"}

C16_LookupOfUnknownAgent ==
    /\ Called("get_score") =>
          IF call.agent \in DOMAIN call.pre.first_hand
          THEN LET view == call.pre.first_hand[call.agent]
               IN  call.result = RDiv(view.alpha, RAdd(view.alpha, view.beta))
          ELSE call.result = call.pre.trust_level
    /\ call.op \in Lookups =>
          /\ DOMAIN store.first_hand = DOMAIN call.pre.first_hand
          /\ store = call.pre

\* get_score of an unknown agent on a store with a non-default trust_level that
\* knows another agent
C16_Witness ==
    /\ Called("get_score")
    /\ call.agent \notin DOMAIN store.first_hand
    /\ DOMAIN store.first_hand # {}
    /\ store.trust_level # Half
    /\ call.result = store.trust_level
    /\ \E a \in DOMAIN store.first_hand : Score(store.first_hand[a]) # Half

(***************************************************************************)
(* C17: a view is created only by the first update_reputation for that     *)
(* agent, starting from the uniform prior alpha=1, beta=1, count 0 before  *)
(* the update is applied, and once created it is never removed: across any *)
(* sequence of update passes and decay passes the set of agents known to a *)
(* store only grows.                                                       *)
(***************************************************************************)
\* the weights the batch applies to owner's view of other, in the order applied
RECURSIVE WeightsApplied(_, _, _)
WeightsApplied(log, owner, other) ==
    IF log = <<>> THEN <<>>
    ELSE LET ev == Head(log)
             w == OutcomeWeight(ev.outcome)
         IN  (IF ev.agent1 = owner /\ ev.agent2 = other THEN <<w>> ELSE <<>>)
             \o (IF ev.agent2 = owner /\ ev.agent1 = other THEN <<w>> ELSE <<>>)
             \o WeightsApplied(Tail(log), owner, other)

RECURSIVE AlphaGains(_)
AlphaGains(ws) == IF ws = <<>> THEN Zero ELSE RAdd(AlphaGain(Head(ws)), AlphaGains(Tail(ws)))

RECURSIVE BetaGains(_)
BetaGains(ws) == IF ws = <<>> THEN Zero ELSE RAdd(BetaGain(Head(ws)), BetaGains(Tail(ws)))

C17_ViewsCreatedOnceNeverRemoved ==
    [][/\ \A e \in DOMAIN reputation_storage :
             /\ e \in DOMAIN reputation_storage'
             /\ DOMAIN reputation_storage[e].first_hand
                   \subseteq DOMAIN reputation_storage'[e].first_hand
       /\ \A e \in DOMAIN reputation_storage :
             \A a \in (DOMAIN reputation_storage'[e].first_hand)
                          \ (DOMAIN reputation_storage[e].first_hand) :
                LET ws == WeightsApplied(transaction_log, agents[e], a)
                    view == reputation_storage'[e].first_hand[a]
                IN  /\ last'.op = "update"
                    /\ ws # <<>>
                    /\ view.alpha = RAdd(One, AlphaGains(ws))
                    /\ view.beta = RAdd(One, BetaGains(ws))
                    /\ view.interaction_count = 0 + Len(ws)]_vars

\* an update pass created a view in a store that already held another one, and a
\* decay pass has since rebalanced the store
C17_Witness ==
    /\ AfterDecay
    /\ reputation_storage # last.rep
    /\ \E e \in DOMAIN reputation_storage :
          /\ Cardinality(DOMAIN reputation_storage[e].first_hand) = 2
          /\ \E a \in DOMAIN reputation_storage[e].first_hand :
                reputation_storage[e].first_hand[a].last_interaction_tick = last.tick
          /\ \E a, b \in DOMAIN reputation_storage[e].first_hand :
                reputation_storage[e].first_hand[a].alpha
                    # reputation_storage[e].first_hand[b].alpha

(***************************************************************************)
(* C18: get_most_trusted(n) returns min(n, number of known agents) entries *)
(* holding the n highest-scoring known agents ordered by (score            *)
(* descending, agent id ascending): among agents with equal scores the     *)
(* smaller agent id comes first and is the one kept when the list is       *)
(* truncated, so the result is the same for every iteration order of the   *)
(* backing map.                                                            *)
(***************************************************************************)
\* <<id, score>> x ranks before y in the order (score descending, agent id ascending)
RanksBefore(x, y) == RGt(x[2], y[2]) \/ (x[2] = y[2] /\ x[1] < y[1])

C18_MostTrustedDeterministic ==
    Called("get_most_trusted") =>
        LET r == call.result
            known == DOMAIN call.pre.first_hand
            entry(a) == <<a, Score(call.pre.first_hand[a])>>
            returned == {r[i][1] : i \in 1..Len(r)}
        IN  /\ Len(r) = IF call.max_count < Cardinality(known)
                        THEN call.max_count ELSE Cardinality(known)
            /\ \A i \in 1..Len(r) : r[i][1] \in known /\ r[i] = entry(r[i][1])
            /\ \A i, j \in 1..Len(r) : i < j => RanksBefore(r[i], r[j])
            /\ \A a \in returned, b \in known \ returned : RanksBefore(entry(a), entry(b))

(***************************************************************************)
(* C19: need levels are always clamped: after Needs::new and after any     *)
(* sequence of mutations made through the library's operations             *)
(* (Needs::clamp, FFI set_needs, NeedDecaySystem::tick), thirst, hunger    *)
(* and tiredness each lie in [0, 100].                                     *)
(***************************************************************************)
InRange(v) == RLe(Zero, v) /\ RLe(v, Int2Rat(100))

C19_NeedsClamped ==
    /\ InRange(agent_needs.thirst)
    /\ InRange(agent_needs.hunger)
    /\ InRange(agent_needs.tiredness)

(***************************************************************************)
(* C20: for every view with alpha > 0 and beta > 0, update(w, t) with      *)
(* w > 0 strictly increases score() and update(w, t) with w < 0 strictly   *)
(* decreases it, and after any number of positive updates score() is still *)
(* strictly less than 1.0.                                                 *)
(***************************************************************************)
\* alpha / (alpha + beta)
ClaimedScore(view) == RDiv(view.alpha, RAdd(view.alpha, view.beta))

NeutralEvent == OneEvent /\ last.log[1].outcome = Neutral

ScoreKept(owner, other) ==
    HasStore(last.rep, owner) =>
        GetScore(reputation_storage[EntityOf(owner)], other)
            = GetScore(last.rep[EntityOf(owner)], other)

C21_NeutralKeepsScore ==
    NeutralEvent =>
        /\ ScoreKept(last.log[1].agent1, last.log[1].agent2)
        /\ ScoreKept(last.log[1].agent2, last.log[1].agent1)

\* the part of C21 that the program does satisfy: the score is kept when the
\* participant already had a view of the other, or its trust_level is 0.5
C21_NeutralKeepsKnownScore ==
    NeutralEvent =>
        \A p \in {<<last.log[1].agent1, last.log[1].agent2>>,
                  <<last.log[1].agent2, last.log[1].agent1>>} :
            (Knows(last.rep, p[1], p[2])
                \/ (HasStore(last.rep, p[1])
                      /\ last.rep[EntityOf(p[1])].trust_level = Half))
                => ScoreKept(p[1], p[2])

(***************************************************************************)
(* C22: every ReputationView starts with alpha >= 1.0 and beta >= 1.0      *)
(* whichever constructor creates it (new, default, with_prior, or the lazy *)
(* creation by update_reputation), so score() never divides by zero.       *)
(***************************************************************************)
Constructors == {"new", "default", "with_prior", "or_insert_with"}

C22_PriorAtLeastOne ==
    /\ call.op \in Constructors =>
          /\ RLe(One, rep_view.alpha)
          /\ RLe(One, rep_view.beta)
    /\ call.op = "score" =>
          /\ RAdd(call.pre.alpha, call.pre.beta) # Zero
          /\ IsFinite(call.result)

\* the part of C22 that the program does satisfy: new, default and the lazy
\* creation give the uniform prior (1, 1)
C22_UniformPriorUnlessCustom ==
    call.op \in {"new", "default", "or_insert_with"} =>
        /\ rep_view.alpha = One
        /\ rep_view.beta = One
        /\ Score(rep_view) = Half

\* score() of a view built by with_prior(0.0, 0.0) divides by zero
C22_ScoreOfZeroPrior ==
    /\ call.op = "score"
    /\ call.pre = WithPrior(Zero, Zero)
    /\ call.result = NaN

(***************************************************************************)
(* C23: after Wallet::new and any sequence of deposit and withdraw calls,  *)
(* negative amounts included, currency >= 0; withdraw(amount) returns      *)
(* min(currency, amount) for amount > 0 and 0 otherwise and lowers         *)
(* currency by exactly the value returned; deposit with amount <= 0 leaves *)
(* the wallet unchanged.                                                   *)
(***************************************************************************)
ClaimedWithdrawn(currency, amount) ==
    IF RGt(amount, Zero)
    THEN IF RLt(amount, currency) THEN amount ELSE currency
    ELSE Zero

Min(a, b) == IF a < b THEN a ELSE b

OthersKept ==
    \A other \in Items \ {call.item_id} :
        Quantity(inventory, other) = Quantity(call.pre, other)

C24_InventorySaturates ==
    /\ Called("remove") =>
          /\ call.result = Min(Quantity(call.pre, call.item_id), call.delta)
          /\ Quantity(inventory, call.item_id) + call.result
                = Quantity(call.pre, call.item_id)
          /\ OthersKept
    /\ Called("add") =>
          /\ Quantity(inventory, call.item_id)
                = Min(Quantity(call.pre, call.item_id) + call.delta, U32Max)
          /\ OthersKept

\* an add that would pass u32::MAX, with the other item in stock
C24_Witness ==
    /\ Called("add")
    /\ Quantity(call.pre, call.item_id) > 0
    /\ Quantity(call.pre, call.item_id) + call.delta > U32Max
    /\ Quantity(inventory, call.item_id) = U32Max
    /\ \E other \in Items \ {call.item_id} : Quantity(inventory, other) > 0

\* a remove of more than the stock, with the other item in stock
C24_RemoveWitness ==
    /\ Called("remove")
    /\ Quantity(call.pre, call.item_id) > 0
    /\ call.delta > Quantity(call.pre, call.item_id)
    /\ call.result = Quantity(call.pre, call.item_id)
    /\ call.item_id \notin DOMAIN inventory
    /\ \E other \in Items \ {call.item_id} : Quantity(inventory, other) > 0

(***************************************************************************)
(* C25: over any sequence of AgentIdAllocator::allocate calls starting     *)
(* from new(), the ids returned are 1, 2, 3, ... in strictly increasing    *)
(* order, none twice; when the counter cannot be advanced the call returns *)
(* Err(Overflow), returns no id and leaves the allocator unchanged, so     *)
(* every later call returns Err(Overflow) too.                             *)
(***************************************************************************)
C25_IdsSequentialThenOverflow ==
    Called("allocate") =>
        /\ call.ids = [i \in 1..Len(call.ids) |-> i]
        /\ call.result # Overflow =>
              /\ call.result.ok = Len(call.ids)
              /\ allocator.next = call.result.ok + 1
        /\ call.result = Overflow <=> call.pre.next = U64Max
        /\ call.result = Overflow =>
              /\ allocator = call.pre
              /\ Len(call.ids) = U64Max - 1
        /\ calls > 0 => call.result = Overflow

\* the second call in a row that fails, after every id below the limit of
\* the counter was handed out
C25_Witness ==
    /\ Called("allocate")
    /\ call.result = Overflow
    /\ calls = 2
    /\ Len(call.ids) = U64Max - 1
    /\ call.ids[Len(call.ids)] = U64Max - 1

(***************************************************************************)
(* C26: events are applied in queue order: after an update pass the        *)
(* last_interaction_tick of a view equals the tick of the last-queued      *)
(* event between the two agents in the batch, also when an earlier event   *)
(* of the batch or the view's previous value carries a larger tick, so     *)
(* last_interaction_tick is not guaranteed to be non-decreasing.           *)
(***************************************************************************)
\* the positions in the batch of the events between a and b
Between(log, a, b) ==
    {i \in 1..Len(log) : {log[i].agent1, log[i].agent2} = {a, b}}

LastOf(positions) == CHOOSE i \in positions : \A j \in positions : j <= i

C26_TickOfLastQueuedEvent ==
    AfterUpdate =>
        \A a \in WorldIds, b \in WorldIds :
            (HasStore(last.rep, a) /\ Between(last.log, a, b) # {}) =>
                /\ Knows(reputation_storage, a, b)
                /\ ViewOf(reputation_storage, a, b).last_interaction_tick
                      = last.log[LastOf(Between(last.log, a, b))].tick

\* a batch of two events between agents 1 and 2, the first with the larger
\* tick: the views end with the smaller tick of the second
C26_Witness ==
    /\ AfterUpdate
    /\ Len(last.log) = 2
    /\ Between(last.log, 1, 2) = {1, 2}
    /\ last.log[1].tick > last.log[2].tick
    /\ ViewOf(reputation_storage, 1, 2).last_interaction_tick = last.log[2].tick
    /\ ViewOf(reputation_storage, 2, 1).last_interaction_tick = last.log[2].tick

\* a view whose previous last_interaction_tick is larger than the tick of
\* the event applied: the tick goes backwards
C26_TickDecreases ==
    /\ OneEvent
    /\ Between(last.log, 1, 2) = {1}
    /\ Knows(last.rep, 1, 2)
    /\ ViewOf(last.rep, 1, 2).last_interaction_tick > last.log[1].tick
    /\ ViewOf(reputation_storage, 1, 2).last_interaction_tick = last.log[1].tick

(***************************************************************************)
(* C27: for any two distinct agents a and b that both own a                *)
(* ReputationKnowledge from the start, after every update pass and every   *)
(* decay pass in any interleaving, a's view of b and b's view of a are     *)
(* either both absent or equal in alpha, beta, last_interaction_tick and   *)
(* interaction_count.                                                      *)
(***************************************************************************)
C27_MutualViewsEqual ==
    \A a \in WorldIds : \A b \in WorldIds \ {a} :
        /\ Knows(reputation_storage, a, b) <=> Knows(reputation_storage, b, a)
        /\ Knows(reputation_storage, a, b) =>
              LET ab == reputation_storage[EntityOf(a)].first_hand[b]
                  ba == reputation_storage[EntityOf(b)].first_hand[a]
              IN  /\ ab.alpha = ba.alpha
                  /\ ab.beta = ba.beta
                  /\ ab.last_interaction_tick = ba.last_interaction_tick
                  /\ ab.interaction_count = ba.interaction_count

\* a decay pass has just rebalanced the two views agents 1 and 2 built of
\* each other from a positive and a negative event; agent 3 is known to
\* neither
C27_Witness ==
    /\ AfterDecay
    /\ Knows(last.rep, 1, 2)
    /\ ViewOf(last.rep, 1, 2).interaction_count = 2
    /\ RGt(ViewOf(last.rep, 1, 2).alpha, One)
    /\ RGt(ViewOf(last.rep, 1, 2).beta, One)
    /\ ViewOf(reputation_storage, 1, 2) # ViewOf(last.rep, 1, 2)
    /\ ViewOf(reputation_storage, 1, 2) = ViewOf(reputation_storage, 2, 1)
    /\ ~Knows(reputation_storage, 1, 3)

(***************************************************************************)
(* C28: processing an event between agents a and b changes at most a's     *)
(* view of b and b's view of a: every view of any third agent, every view  *)
(* held by any other agent and every store's trust_level are unchanged by  *)
(* the update pass.                                                        *)
(***************************************************************************)
C28_OnlyParticipantsViewsChange ==
    AfterUpdate =>
        /\ DOMAIN reputation_storage = DOMAIN last.rep
        /\ \A e \in DOMAIN last.rep :
              reputation_storage[e].trust_level = last.rep[e].trust_level
        /\ \A owner \in WorldIds, other \in WorldIds :
              Between(last.log, owner, other) = {} =>
                  /\ Knows(reputation_storage, owner, other) <=> Knows(last.rep, owner, other)
                  /\ ViewOf(reputation_storage, owner, other) = ViewOf(last.rep, owner, other)

\* one event between agents 1 and 2 in a world where agent 1 and agent 3
\* hold views of each other and trust_level is not the default: the views
\* between 1 and 2 change, those between 1 and 3 do not
C28_Witness ==
    /\ OneEvent
    /\ Between(last.log, 1, 2) = {1}
    /\ last.log[1].outcome # Neutral
    /\ Knows(last.rep, 1, 3)
    /\ Knows(last.rep, 3, 1)
    /\ ViewOf(last.rep, 1, 3).last_interaction_tick # last.log[1].tick
    /\ last.rep[1].trust_level = One
    /\ ViewOf(reputation_storage, 1, 2) # ViewOf(last.rep, 1, 2)
    /\ ViewOf(reputation_storage, 2, 1) # ViewOf(last.rep, 2, 1)
    /\ ViewOf(reputation_storage, 1, 3) = ViewOf(last.rep, 1, 3)
    /\ reputation_storage[3] = last.rep[3]

(***************************************************************************)
(* C29: the intent decide returns depends only on the agent's needs, its   *)
(* diet, the three high thresholds, the weights, the search radius and the *)
(* spatial query results: two runs that differ only in critical_thirst,    *)
(* critical_hunger, critical_tiredness or in the random log sample return  *)
(* the same intent.                                                        *)
(***************************************************************************)
\* the maximizer with other critical thresholds
WithCritical(self, thirst, hunger, tiredness) ==
    [self EXCEPT !.thresholds.critical_thirst = thirst,
                 !.thresholds.critical_hunger = hunger,
                 !.thresholds.critical_tiredness = tiredness]

CriticalVariants == {<<80, 70, 85>>, <<61, 51, 71>>, <<90, 90, 90>>, <<0, 0, 0>>}

\* what a run with the critical thresholds c and any log sample returns
IntentWith(c) ==
    SortByUtility(<<>>,
        Candidates(WithCritical(maximizer, c[1], c[2], c[3]),
                   needs, species, world_query))[1].intent

UtilityOf(reason) ==
    utilities[CHOOSE i \in 1..Len(utilities) : utilities[i].reason = reason].utility

C30_RestWitness ==
    /\ Decided
    /\ maximizer = DefaultMaximizer
    /\ needs.tiredness = 80
    /\ needs.thirst = 60
    /\ needs.hunger = 50
    /\ world_query.water # <<>>
    /\ world_query.food # <<>>
    /\ output.intent = Rest

====
